---- MODULE Spec2Model ----
(***************************************************************************)
(* Edupilot: the AI proxy route (src/app/api/ai/route.ts) and the quiz     *)
(* view (src/unnamed/part_000).                                            *)
(*                                                                         *)
(* The route runs on one JavaScript event loop.  A macrotask (a request    *)
(* arriving, a fetch settling, a backoff timer firing) runs to its next    *)
(* await; the continuations of settled promises (microtasks) then run, in  *)
(* the order they were registered, before the next macrotask.  mq is the   *)
(* microtask queue: while it is non-empty only its head may run.           *)
(***************************************************************************)
EXTENDS Naturals, Integers, Sequences, FiniteSets, TLC

\* ------------------------------------------------------------ bounds
\* POST requests in a run
MaxSelections == 5
NumReqs == 3
\* steps the clock takes in a run
MaxTicks == 2
\* fetches that fail in a run (a thrown fetch, an error status, a body
\* that cannot be read); one invocation meets at most maxRetries of them
MaxFaults == 3

\* ------------------------------------------------- program constants
CACHE_TTL == 1000 * 60 * 10
\* a ceiling off by one
maxRetriesPlusOne == 3 + 1
maxRetries == 3
CONTENT_SLICE == 100
PROMPT_SLICE == 50

\* The clock advances in steps of half the TTL, so that ages below, at and
\* above the TTL occur.
TickStep == CACHE_TTL \div 2

Reqs == 1..NumReqs

\* ------------------------------------------------------------ strings
\* A JavaScript string is a sequence of one-character strings.
Rep(c, n) == [i \in 1..n |-> c]

Min(a, b) == IF a < b THEN a ELSE b

\* String.prototype.slice(0, n)
Slice(s, n) == SubSeq(s, 1, Min(Len(s), n))

\* `${x}` of a value that may be undefined
UndefinedText == <<"u", "n", "d", "e", "f", "i", "n", "e", "d">>
Template(defined, s) == IF defined THEN s ELSE UndefinedText

TSummarize == <<"s", "u", "m", "m", "a", "r", "i", "z", "e">>
TQuiz == <<"q", "u", "i", "z">>
TAskdoubt == <<"a", "s", "k", "d", "o", "u", "b", "t">>
TMindmap == <<"m", "i", "n", "d", "m", "a", "p">>
TFlashcards == <<"f", "l", "a", "s", "h", "c", "a", "r", "d", "s">>
TBogus == <<"b", "o", "g", "u", "s">>

\* the cases of the switch that do not reach `default`
KnownTasks == {TSummarize, TQuiz, TAskdoubt, TMindmap, TFlashcards}

\* a switch without its default case
IsKnownTaskAny(task) == TRUE
IsKnownTask(task) == task \in KnownTasks

\* ------------------------------------------------------------ selector
DefaultModel == "meta-llama/llama-4-scout:free"
ReasoningModel == "deepseek/deepseek-r1-distill-qwen-32b:free"

\* let model = default; if (task === "mindmap" || task === "quiz") ...
ModelFor(task) ==
  IF task = TMindmap \/ task = TQuiz THEN ReasoningModel ELSE DefaultModel

\* let temperature = 0.7 and the assignments of the switch, in tenths
TemperatureFor(task) ==
  CASE task = TSummarize -> 3
    [] task = TQuiz -> 7
    [] task = TAskdoubt -> 4
    [] task = TMindmap -> 7
    [] task = TFlashcards -> 5
    [] OTHER -> 7

\* a switch whose quiz and flashcards cases do not assign maxTokens
MaxTokensDefault(task) == IF task = TMindmap THEN 2000 ELSE 1024

\* let maxTokens = 1024 and the assignments of the switch
MaxTokensFor(task) ==
  CASE task = TQuiz -> 1500
    [] task = TMindmap -> 2000
    [] task = TFlashcards -> 1500
    [] OTHER -> 1024

\* systemPrompt: one fixed text for each task, named here by its task
SystemPromptFor(task) == <<"system">> \o task

\* userPrompt: the template of the task around the texts of the request
UserPromptFor(task, content, hasPrompt, prompt) ==
  CASE task = TSummarize -> <<"Please summarize the following text">> \o content
    [] task = TQuiz -> <<"Create 5 multiple-choice quiz questions">> \o content
    [] task = TAskdoubt ->
         <<"The student has this question: ">> \o Template(hasPrompt, prompt)
           \o <<"Content: ">> \o content
           \o <<"Provide a helpful, educational answer.">>
    [] task = TMindmap -> <<"Create a mind map based on this content">> \o content
    [] task = TFlashcards -> <<"Create 5-10 flashcards based on this content">> \o content
    [] OTHER -> <<>>

\* What the executor settles on before its first fetch; valid = FALSE is
\* the default case of the switch.
Selector(task, content, hasPrompt, prompt) ==
  [valid |-> IsKnownTask(task),
   model |-> ModelFor(task),
   systemPrompt |-> IF IsKnownTask(task) THEN SystemPromptFor(task) ELSE <<>>,
   userPrompt |-> UserPromptFor(task, content, hasPrompt, prompt),
   temperature |-> TemperatureFor(task),
   maxTokens |-> MaxTokensFor(task)]

\* the requests the selector is tried on
SelectorTasks == KnownTasks \cup {TBogus}
SelectorContents == {<<"x">>, <<"y", "z">>}

\* ------------------------------------------------------------ requests
\* The JSON body of a POST.  parses = FALSE: req.json() throws.
Body(task, content, hasPrompt, prompt) ==
  [parses |-> TRUE, task |-> task, content |-> content,
   hasPrompt |-> hasPrompt, prompt |-> prompt]

NoBody == [parses |-> FALSE, task |-> <<>>, content |-> <<>>,
           hasPrompt |-> FALSE, prompt |-> <<>>]

LongA == Rep("a", CONTENT_SLICE)
LongP == Rep("p", PROMPT_SLICE)

\* The first two differ only after the 100th character of content and the
\* 50th of prompt.
Bodies ==
  { Body(TAskdoubt, LongA \o <<"x">>, TRUE, LongP \o <<"1">>),
    Body(TAskdoubt, LongA \o <<"y">>, TRUE, LongP \o <<"2">>),
    Body(TBogus, <<"b">>, FALSE, <<>>),
    NoBody }

\* What the specification says two requests must share to be the same
\* request: the task, the first 100 characters of content, the first 50 of
\* prompt (or that there is no prompt).
Leading(s, n) == [i \in 1..(IF Len(s) < n THEN Len(s) ELSE n) |-> s[i]]
Fingerprint(b) ==
  [parses |-> b.parses, task |-> b.task, content |-> Leading(b.content, 100),
   hasPrompt |-> b.hasPrompt, prompt |-> Leading(b.prompt, 50)]
NoFingerprint == Fingerprint(NoBody)

\* a key of the whole texts
CacheKeyWhole(b) ==
  b.task \o <<":">> \o b.content \o <<":">> \o Template(b.hasPrompt, b.prompt)

\* const cacheKey = `${task}:${content?.slice(0, 100)}:${prompt?.slice(0, 50)}`
CacheKey(b) ==
  b.task \o <<":">> \o Slice(b.content, CONTENT_SLICE) \o <<":">>
         \o Template(b.hasPrompt, Slice(b.prompt, PROMPT_SLICE))

\* ------------------------------------------------------------ Map
MapHas(m, k) == k \in DOMAIN m
MapSet(m, k, v) == [x \in (DOMAIN m) \cup {k} |-> IF x = k THEN v ELSE m[x]]
MapDelete(m, k) == [x \in (DOMAIN m) \ {k} |-> m[x]]
EmptyMap == [x \in {} |-> 0]

\* ------------------------------------------------------------ values
Absent == "<absent>"

\* What a promise is rejected with, or a catch clause receives.  isError:
\* the value is an instance of Error (it has a message); the objects the
\* route passes to reject() are plain objects.
Plain(error, details, status) ==
  [isError |-> FALSE, message |-> Absent, error |-> error,
   details |-> details, status |-> status]
Thrown(message) ==
  [isError |-> TRUE, message |-> message, error |-> Absent,
   details |-> Absent, status |-> 0]
NoReason == Plain(Absent, Absent, 0)

\* error instanceof Error ? error.message : String(error)
ErrorText(e) == IF e.isError THEN e.message ELSE "[object Object]"

\* a promise
NoPromise == [state |-> "none", result |-> Absent, reason |-> NoReason]
Pending == [state |-> "pending", result |-> Absent, reason |-> NoReason]
Resolved(c) == [state |-> "resolved", result |-> c, reason |-> NoReason]
Rejected(e) == [state |-> "rejected", result |-> Absent, reason |-> e]

\* the HTTP response the client receives: its status and its JSON body
NoResponse == [http |-> 0, result |-> Absent, error |-> Absent,
               details |-> Absent, status |-> 0]
\* NextResponse.json({ result })
JsonResult(c) == [http |-> 200, result |-> c, error |-> Absent,
                  details |-> Absent, status |-> 0]
\* the outer catch: NextResponse.json({ error, details }, { status: 500 })
JsonFault(e) == [http |-> 500, result |-> Absent,
                 error |-> "Internal server error",
                 details |-> ErrorText(e), status |-> 0]

\* ------------------------------------------------------------ upstream
\* What one fetch does.  kind "net": fetch throws (timeout, connection).
\* kind "http": a response with this status; bodyOk: response.json() gives
\* an object (with choices[0].message.content = content when status is 200).
Completions == {"c1", "c2"}
Outcomes ==
  [kind : {"http"}, status : {200}, bodyOk : {TRUE}, content : Completions]
  \cup [kind : {"http"}, status : {200}, bodyOk : {FALSE}, content : {Absent}]
  \cup [kind : {"http"}, status : {429}, bodyOk : {TRUE}, content : {Absent}]
  \cup [kind : {"http"}, status : {500}, bodyOk : BOOLEAN, content : {Absent}]
  \cup [kind : {"net"}, status : {0}, bodyOk : {FALSE}, content : {Absent}]

RECURSIVE Pow2(_)
Pow2(n) == IF n = 0 THEN 1 ELSE 2 * Pow2(n - 1)

\* Math.pow(2, retryCount) * 1000
BackoffTime(n) == Pow2(n) * 1000

VARIABLES
  now,              \* Date.now()
  responseCache,    \* Map: cacheKey -> [data, timestamp]
  ongoingRequests,  \* Map: cacheKey -> the request whose requestPromise it holds
  pc,               \* where each POST handler is
  task,             \* the handler's task
  cacheKey,         \* the handler's cacheKey
  fingerprint,      \* the body each request carried, as far as it counts:
                    \* task, leading content, leading prompt
  awaited,          \* the request whose promise the handler awaited at line 34
  promise,          \* requestPromise of each handler
  reactions,        \* handlers awaiting each pending requestPromise, in order
  ipc,              \* where each promise executor is
  retryCount,       \* the executor's retryCount
  response,         \* the executor's response: its status, 0 for null
  attempts,         \* fetches each executor has issued
  backoffs,         \* backoff waits each executor has started, in order
  resp,             \* the response each client received
  via,              \* how each response was produced
  mq,               \* microtask queue: handlers to resume
  faults            \* fetches that have failed so far

routeVars == <<now, responseCache, ongoingRequests, pc, task, cacheKey,
               fingerprint, awaited, promise, reactions, ipc, retryCount,
               response, attempts, backoffs, resp, via, mq, faults>>

\* ------------------------------------------------------------ the quiz view
\* JavaScript values a string field may hold instead of a string
Null == "<null>"
Undefined == "<undefined>"

\* what `!x` and `x &&` take for true
Truthy(v) == v \notin {"", Null, Undefined}

\* An element of the payload.  optionsIsArray: Array.isArray(q.options).
Question(question, optionsIsArray, options, correctAnswer) ==
  [question |-> question, optionsIsArray |-> optionsIsArray,
   options |-> options, correctAnswer |-> correctAnswer]

\* What the request hook hands to onSuccess.  isArray: Array.isArray(data).
Payload(isArray, items) == [isArray |-> isArray, items |-> items]

Q1 == Question("q1", TRUE, <<"A", "B", "C", "D">>, "B")
Q2 == Question("q2", TRUE, <<"A", "", "C", "D">>, "C")
Q3 == Question("q3", TRUE, <<"A", "B", "C", "D">>, "E")
Q4 == Question("q4", TRUE, <<"D", "C", "B", "A">>, "A")

QuizPayloads ==
  { Payload(TRUE, <<Q1, Q2>>),
    Payload(TRUE, <<Q4, Q3, Q1>>),
    Payload(TRUE, <<Q4>>),
    Payload(TRUE, <<>>),
    Payload(FALSE, <<>>),
    Payload(TRUE, <<Q1, Question("q", FALSE, <<>>, "A")>>),
    Payload(TRUE, <<Question("q", TRUE, <<"A", "B", "C">>, "A")>>),
    Payload(TRUE, <<Question("", TRUE, <<"A", "B", "C", "D">>, "A"), Q1>>),
    Payload(TRUE, <<Q1, Question("q", TRUE, <<"A", "B", "C", "D">>, Undefined)>>) }

VARIABLES
  quiz,                  \* useState<QuizQuestion[]>([])
  currentQuestionIndex,  \* useState(0)
  selectedOption,        \* useState<string | null>(null)
  isAnswered,            \* useState(false)
  score,                 \* useState(0)
  isQuizCompleted,       \* useState(false)
  isLoading,             \* from useAIRequest
  error,                 \* from useAIRequest
  awarded                \* the amount of the latest addPoints call

quizVars == <<quiz, currentQuestionIndex, selectedOption, isAnswered, score,
              isQuizCompleted, isLoading, error, awarded>>

\* ------------------------------------------------------------ selector runs
\* selected: the latest request given to the selector and what it chose;
\* selections: how many requests it has been given.
VARIABLES selected, selections

selVars == <<selected, selections>>

vars == <<routeVars, quizVars, selVars>>

Init ==
  /\ now = 0
  /\ responseCache = EmptyMap
  /\ ongoingRequests = EmptyMap
  /\ pc = [r \in Reqs |-> "idle"]
  /\ task = [r \in Reqs |-> <<>>]
  /\ cacheKey = [r \in Reqs |-> <<>>]
  /\ fingerprint = [r \in Reqs |-> NoFingerprint]
  /\ awaited = [r \in Reqs |-> 0]
  /\ promise = [r \in Reqs |-> NoPromise]
  /\ reactions = [r \in Reqs |-> <<>>]
  /\ ipc = [r \in Reqs |-> "none"]
  /\ retryCount = [r \in Reqs |-> 0]
  /\ response = [r \in Reqs |-> 0]
  /\ attempts = [r \in Reqs |-> 0]
  /\ backoffs = [r \in Reqs |-> <<>>]
  /\ resp = [r \in Reqs |-> NoResponse]
  /\ via = [r \in Reqs |-> "none"]
  /\ mq = <<>>
  /\ faults = 0
  /\ quiz = <<>>
  /\ currentQuestionIndex = 0
  /\ selectedOption = Null
  /\ isAnswered = FALSE
  /\ score = 0
  /\ isQuizCompleted = FALSE
  /\ isLoading = FALSE
  /\ error = Null
  /\ awarded = 0
  /\ selected = [task |-> <<>>, content |-> <<>>, hasPrompt |-> FALSE,
                 prompt |-> <<>>, out |-> Selector(<<>>, <<>>, FALSE, <<>>)]
  /\ selections = 0


\* ------------------------------------------------------------ the route
\* cachedResponse && Date.now() - cachedResponse.timestamp < CACHE_TTL
\* an entry still served at the age of exactly CACHE_TTL
CacheHitInclusive(k) ==
  /\ MapHas(responseCache, k)
  /\ now - responseCache[k].timestamp <= CACHE_TTL

CacheHit(k) ==
  /\ MapHas(responseCache, k)
  /\ now - responseCache[k].timestamp < CACHE_TTL

\* Lines 43-212 up to the first await: the executor of requestPromise runs
\* synchronously inside `new Promise`, then line 209 registers the promise
\* and line 212 awaits it.  For an unknown task the executor rejects and
\* its finally clause deletes the key before line 209 sets it.
Start(r, t, k, mqBase) ==
  /\ pc' = [pc EXCEPT ![r] = "awaitOwn"]
  /\ IF IsKnownTask(t)
       THEN /\ promise' = [promise EXCEPT ![r] = Pending]
            /\ ipc' = [ipc EXCEPT ![r] = "fetching"]
            /\ attempts' = [attempts EXCEPT ![r] = 1]
            /\ ongoingRequests' = MapSet(ongoingRequests, k, r)
            /\ reactions' = [reactions EXCEPT ![r] = <<r>>]
            /\ mq' = mqBase
       ELSE /\ promise' = [promise EXCEPT ![r] =
                             Rejected(Plain("Invalid task type", Absent, 0))]
            /\ ipc' = [ipc EXCEPT ![r] = "settled"]
            /\ attempts' = attempts
            /\ ongoingRequests' = MapSet(MapDelete(ongoingRequests, k), k, r)
            /\ reactions' = reactions
            /\ mq' = Append(mqBase, r)
  /\ UNCHANGED <<now, responseCache, retryCount, response, backoffs>>

\* a settlement that wakes nobody
SettleWakesNobody(r, p) ==
  /\ promise' = [promise EXCEPT ![r] = p]
  /\ ipc' = [ipc EXCEPT ![r] = "settled"]
  /\ ongoingRequests' = MapDelete(ongoingRequests, cacheKey[r])
  /\ mq' = mq
  /\ reactions' = [reactions EXCEPT ![r] = <<>>]
  /\ retryCount' = [retryCount EXCEPT ![r] = 0]
  /\ response' = [response EXCEPT ![r] = 0]
  /\ backoffs' = [backoffs EXCEPT ![r] = <<>>]

\* resolve()/reject() followed by the finally clause (line 204); the
\* handlers awaiting the promise are queued in the order they began to wait.
\* The executor returns, and its locals are gone.
Settle(r, p) ==
  /\ promise' = [promise EXCEPT ![r] = p]
  /\ ipc' = [ipc EXCEPT ![r] = "settled"]
  /\ ongoingRequests' = MapDelete(ongoingRequests, cacheKey[r])
  /\ mq' = mq \o reactions[r]
  /\ reactions' = [reactions EXCEPT ![r] = <<>>]
  /\ retryCount' = [retryCount EXCEPT ![r] = 0]
  /\ response' = [response EXCEPT ![r] = 0]
  /\ backoffs' = [backoffs EXCEPT ![r] = <<>>]

\* POST, lines 16-40 and on to line 212: a request arrives.
\* Requests are numbered in the order they arrive.
Arrive(r, b) ==
  /\ mq = <<>>
  /\ UNCHANGED <<quizVars, selVars>>
  /\ pc[r] = "idle"
  /\ \A q \in Reqs : q < r => pc[q] # "idle"
  /\ fingerprint' = [fingerprint EXCEPT ![r] = Fingerprint(b)]
  /\ task' = [task EXCEPT ![r] = b.task]
  /\ cacheKey' = [cacheKey EXCEPT ![r] = IF b.parses THEN CacheKey(b) ELSE <<>>]
  /\ faults' = faults
  /\ IF ~b.parses
       THEN \* await req.json() throws: the outer catch answers
            /\ pc' = [pc EXCEPT ![r] = "done"]
            /\ resp' = [resp EXCEPT ![r] = JsonFault(Thrown("Unexpected end of JSON input"))]
            /\ via' = [via EXCEPT ![r] = "fault"]
            /\ UNCHANGED <<now, responseCache, ongoingRequests, awaited, promise,
                           reactions, ipc, retryCount, response, attempts,
                           backoffs, mq>>
       ELSE LET k == CacheKey(b) IN
            IF CacheHit(k)
              THEN /\ pc' = [pc EXCEPT ![r] = "done"]
                   /\ resp' = [resp EXCEPT ![r] = JsonResult(responseCache[k].data)]
                   /\ via' = [via EXCEPT ![r] = "cache"]
                   /\ UNCHANGED <<now, responseCache, ongoingRequests, awaited,
                                  promise, reactions, ipc, retryCount, response,
                                  attempts, backoffs, mq>>
              ELSE IF MapHas(ongoingRequests, k)
                THEN LET p == ongoingRequests[k] IN
                     /\ pc' = [pc EXCEPT ![r] = "waiting"]
                     /\ awaited' = [awaited EXCEPT ![r] = p]
                     /\ IF promise[p].state = "pending"
                          THEN /\ reactions' = [reactions EXCEPT ![p] = Append(@, r)]
                               /\ mq' = mq
                          ELSE /\ reactions' = reactions
                               /\ mq' = Append(mq, r)
                     /\ UNCHANGED <<now, responseCache, ongoingRequests, promise,
                                    ipc, retryCount, response, attempts, backoffs,
                                    resp, via>>
                ELSE /\ Start(r, b.task, k, mq)
                     /\ UNCHANGED <<awaited, resp, via>>

\* line 35 without its return: the handler goes on to line 43 after a
\* success too
ResumeWaiterNoReturn(r) ==
  /\ Start(r, task[r], cacheKey[r], Tail(mq))
  /\ UNCHANGED <<awaited, resp, via>>

\* a catch at line 36 that rethrows: the waiter answers with the failure
ResumeWaiterSurfaces(r) ==
  LET p == promise[awaited[r]] IN
  /\ pc' = [pc EXCEPT ![r] = "done"]
  /\ IF p.state = "resolved"
       THEN /\ resp' = [resp EXCEPT ![r] = JsonResult(p.result)]
            /\ via' = [via EXCEPT ![r] = "shared"]
       ELSE /\ resp' = [resp EXCEPT ![r] = JsonFault(p.reason)]
            /\ via' = [via EXCEPT ![r] = "fault"]
  /\ mq' = Tail(mq)
  /\ UNCHANGED <<now, responseCache, ongoingRequests, awaited,
                 promise, reactions, ipc, retryCount, response,
                 attempts, backoffs>>

\* Lines 34-39, the continuation of the await at line 34 in a handler
\* that found its key in ongoingRequests.  On a rejection the catch at
\* line 36 swallows it and the handler goes on to line 43.
ResumeWaiter(r) ==
  LET p == promise[awaited[r]] IN
  IF p.state = "resolved"
    THEN /\ pc' = [pc EXCEPT ![r] = "done"]
         /\ resp' = [resp EXCEPT ![r] = JsonResult(p.result)]
         /\ via' = [via EXCEPT ![r] = "shared"]
         /\ mq' = Tail(mq)
         /\ UNCHANGED <<now, responseCache, ongoingRequests, awaited,
                        promise, reactions, ipc, retryCount, response,
                        attempts, backoffs>>
    ELSE /\ Start(r, task[r], cacheKey[r], Tail(mq))
         /\ UNCHANGED <<awaited, resp, via>>

\* Lines 212-219, the continuation of the await at line 212 in the handler
\* that created requestPromise.
ResumeOwner(r) ==
  LET p == promise[r] IN
  /\ pc' = [pc EXCEPT ![r] = "done"]
  /\ IF p.state = "resolved"
       THEN /\ resp' = [resp EXCEPT ![r] = JsonResult(p.result)]
            /\ via' = [via EXCEPT ![r] = "own"]
       ELSE /\ resp' = [resp EXCEPT ![r] = JsonFault(p.reason)]
            /\ via' = [via EXCEPT ![r] = "fault"]
  /\ mq' = Tail(mq)
  /\ UNCHANGED <<now, responseCache, ongoingRequests, awaited, promise,
                 reactions, ipc, retryCount, response, attempts, backoffs>>

\* The microtask at the head of the queue runs.
Resume(r) ==
  /\ mq # <<>>
  /\ UNCHANGED <<quizVars, selVars>>
  /\ Head(mq) = r
  /\ UNCHANGED <<task, cacheKey, fingerprint, faults>>
  /\ IF pc[r] = "waiting"
       THEN ResumeWaiter(r)
       ELSE pc[r] = "awaitOwn" /\ ResumeOwner(r)

\* ------------------------------------------------------------ the executor
\* The next iteration of the while loop issues a fetch (line 113).
Refetch(r) ==
  /\ ipc' = [ipc EXCEPT ![r] = "fetching"]
  /\ attempts' = [attempts EXCEPT ![r] = @ + 1]

\* Lines 163-178, the catch inside the loop: fetch threw, or
\* response.json() of an error response threw.  status is what `response`
\* holds by then.
CatchAttempt(r, status, message) ==
  /\ IF retryCount[r] + 1 >= maxRetries
       THEN Settle(r, Rejected(Plain("Network error after multiple retries",
                                     message, 0)))
       ELSE /\ retryCount' = [retryCount EXCEPT ![r] = @ + 1]
            /\ response' = [response EXCEPT ![r] = status]
            /\ backoffs' = [backoffs EXCEPT ![r] =
                              Append(@, BackoffTime(retryCount[r] + 1))]
            /\ ipc' = [ipc EXCEPT ![r] = "backoffCatch"]
            /\ UNCHANGED <<promise, ongoingRequests, mq, reactions>>
  /\ UNCHANGED <<attempts, responseCache>>

\* Lines 148-152: a 429 whose body was read.
RateLimited(r) ==
  /\ response' = [response EXCEPT ![r] = 429]
  /\ backoffs' = [backoffs EXCEPT ![r] = Append(@, BackoffTime(retryCount[r]))]
  /\ ipc' = [ipc EXCEPT ![r] = "backoff429"]
  /\ UNCHANGED <<retryCount, attempts, responseCache, promise,
                 ongoingRequests, mq, reactions>>

\* Lines 153-160: another error status whose body was read.
FailFast(r, status) ==
  /\ Settle(r, Rejected(Plain("Failed to get response from AI",
                              "errorData", status)))
  /\ UNCHANGED <<attempts, responseCache>>

\* Lines 142-143 and 181-195: response.ok.
\* a completion that caches whatever it got
CompleteCachesAll(r, o) ==
  /\ UNCHANGED attempts
  /\ responseCache' =
       MapSet(responseCache, cacheKey[r], [data |-> o.content, timestamp |-> now])
  /\ IF o.bodyOk
       THEN Settle(r, Resolved(o.content))
       ELSE Settle(r, Rejected(Plain("Internal server error",
                                     "Unexpected token", 0)))

Complete(r, o) ==
  /\ UNCHANGED attempts
  /\ IF o.bodyOk
       THEN /\ responseCache' =
                 MapSet(responseCache, cacheKey[r],
                        [data |-> o.content, timestamp |-> now])
            /\ Settle(r, Resolved(o.content))
       ELSE \* lines 186-187 throw: the catch at line 196
            /\ responseCache' = responseCache
            /\ Settle(r, Rejected(Plain("Internal server error",
                                        "Unexpected token", 0)))

\* Lines 113-162 and 181-195: the fetch the executor awaits settles, and
\* the executor runs on to its next timer, or settles requestPromise.
FetchSettles(r, o) ==
  /\ mq = <<>>
  /\ UNCHANGED <<quizVars, selVars>>
  /\ ipc[r] = "fetching"
  /\ IF o.kind = "http" /\ o.status = 200 /\ o.bodyOk
       THEN faults' = faults
       ELSE faults < MaxFaults /\ faults' = faults + 1
  /\ UNCHANGED <<now, pc, task, cacheKey, fingerprint, awaited, resp, via>>
  /\ IF o.kind = "net"
       THEN CatchAttempt(r, response[r], "The operation was aborted due to timeout")
       ELSE IF o.status = 200
         THEN Complete(r, o)
         ELSE IF ~o.bodyOk
           THEN \* line 145 throws inside the loop's try
                CatchAttempt(r, o.status, "Unexpected token")
           ELSE IF o.status = 429
             THEN RateLimited(r)
             ELSE FailFast(r, o.status)

\* The setTimeout of a backoff fires (lines 151-152, 177) and the loop
\* condition of line 110 is evaluated again.
BackoffElapses(r) ==
  /\ mq = <<>>
  /\ UNCHANGED <<quizVars, selVars>>
  /\ ipc[r] \in {"backoff429", "backoffCatch"}
  /\ UNCHANGED <<now, pc, task, cacheKey, fingerprint, awaited, resp, via,
                 responseCache, faults>>
  /\ LET rc == IF ipc[r] = "backoff429" THEN retryCount[r] + 1
                                        ELSE retryCount[r] IN
     IF rc < maxRetries
       THEN /\ retryCount' = [retryCount EXCEPT ![r] = rc]
            /\ Refetch(r)
            /\ UNCHANGED <<promise, ongoingRequests, mq, reactions, response,
                           backoffs>>
       ELSE \* the loop ends; line 181: !response || !response.ok
            /\ response[r] = 0 \/ response[r] # 200
            /\ Settle(r, Rejected(Plain(
                  "Failed to get response from AI after multiple attempts",
                  Absent, 0)))
            /\ UNCHANGED attempts

\* Time passes.  The clock is read at lines 24 and 192, and what line 192
\* stores is read only at line 24 of a later request.
Tick ==
  /\ mq = <<>>
  /\ UNCHANGED <<quizVars, selVars>>
  /\ now < MaxTicks * TickStep
  /\ \E r \in Reqs : pc[r] = "idle"
  /\ now' = now + TickStep
  /\ UNCHANGED <<responseCache, ongoingRequests, pc, task, cacheKey,
                 fingerprint, awaited, promise,
                 reactions, ipc, retryCount, response, attempts, backoffs,
                 resp, via, mq, faults>>

\* ------------------------------------------------------------ the quiz view
\* const currentQuestion = quiz[currentQuestionIndex]
HasCurrentQuestion == currentQuestionIndex < Len(quiz)
currentQuestion == quiz[currentQuestionIndex + 1]

\* What the component renders (lines 115-168, 187, 275): the handlers a
\* user can reach are those of the elements on screen.
ViewLoading == isLoading
ViewError == ~isLoading /\ error # Null
ViewEmpty == ~isLoading /\ error = Null /\ ~HasCurrentQuestion /\ ~isQuizCompleted
ViewQuestion == ~isLoading /\ error = Null /\ HasCurrentQuestion /\ ~isQuizCompleted
ViewResults == ~isLoading /\ error = Null /\ isQuizCompleted

\* lines 40-43: the payload onSuccess accepts
ValidQuiz(data) ==
  /\ data.isArray
  /\ \A i \in 1..Len(data.items) :
       LET q == data.items[i] IN
       /\ Truthy(q.question)
       /\ q.optionsIsArray
       /\ Len(q.options) = 4
       /\ Truthy(q.correctAnswer)

\* Math.round((score / quiz.length) * 50)
CompletionBonus == (100 * score + Len(quiz)) \div (2 * Len(quiz))

\* useAIRequest, makeRequest: the view is loading until the request ends.
HookStarts == isLoading' = TRUE /\ error' = Null

\* useAIRequest: the request ended well; whatever onSuccess did with the
\* data, the hook is no longer loading and reports no error.
HookSucceeds == isLoading' = FALSE /\ error' = Null

\* useAIRequest: the request failed.
HookFails == isLoading' = FALSE /\ error' = "Failed to generate"

\* generateQuiz (lines 60-62), run by the effect at mount and by the
\* buttons of lines 151, 162 and 325: the hook starts a request.
generateQuiz ==
  /\ ViewError \/ ViewEmpty \/ ViewResults
  /\ HookStarts
  /\ UNCHANGED <<quiz, currentQuestionIndex, selectedOption, isAnswered,
                 score, isQuizCompleted, awarded>>
  /\ UNCHANGED <<routeVars, selVars>>

\* The request succeeds and the hook calls onSuccess (lines 38-57).
onSuccess(data) ==
  /\ isLoading
  /\ HookSucceeds
  /\ IF ValidQuiz(data)
       THEN /\ quiz' = data.items
            /\ currentQuestionIndex' = 0
            /\ selectedOption' = Null
            /\ isAnswered' = FALSE
            /\ score' = 0
            /\ isQuizCompleted' = FALSE
            /\ awarded' = 20
       ELSE UNCHANGED <<quiz, currentQuestionIndex, selectedOption,
                        isAnswered, score, isQuizCompleted, awarded>>
  /\ UNCHANGED <<routeVars, selVars>>

\* The request fails: the hook reports an error.
onFailure ==
  /\ isLoading
  /\ HookFails
  /\ UNCHANGED <<quiz, currentQuestionIndex, selectedOption, isAnswered,
                 score, isQuizCompleted, awarded>>
  /\ UNCHANGED <<routeVars, selVars>>

\* a handler without the guard of line 78
handleOptionSelectAlways(option) ==
  /\ ViewQuestion
  /\ \E i \in 1..Len(currentQuestion.options) : currentQuestion.options[i] = option
  /\ selectedOption' = option
  /\ UNCHANGED <<quiz, currentQuestionIndex, isAnswered, score,
                 isQuizCompleted, isLoading, error, awarded>>
  /\ UNCHANGED <<routeVars, selVars>>

\* lines 77-80, from the onClick of line 216
handleOptionSelect(option) ==
  /\ ViewQuestion
  /\ \E i \in 1..Len(currentQuestion.options) : currentQuestion.options[i] = option
  /\ IF isAnswered
       THEN selectedOption' = selectedOption
       ELSE selectedOption' = option
  /\ UNCHANGED <<quiz, currentQuestionIndex, isAnswered, score,
                 isQuizCompleted, isLoading, error, awarded>>
  /\ UNCHANGED <<routeVars, selVars>>

\* a check that forgets setIsAnswered(true)
checkAnswerNoMark ==
  /\ ViewQuestion
  /\ ~isAnswered
  /\ IF ~Truthy(selectedOption) \/ ~HasCurrentQuestion
       THEN UNCHANGED <<score, awarded>>
       ELSE IF selectedOption = currentQuestion.correctAnswer
              THEN score' = score + 1 /\ awarded' = 5
              ELSE UNCHANGED <<score, awarded>>
  /\ UNCHANGED <<quiz, currentQuestionIndex, selectedOption, isAnswered,
                 isQuizCompleted, isLoading, error>>
  /\ UNCHANGED <<routeVars, selVars>>

\* lines 82-92, from the button of line 257 (on screen while !isAnswered)
checkAnswer ==
  /\ ViewQuestion
  /\ ~isAnswered
  /\ IF ~Truthy(selectedOption) \/ ~HasCurrentQuestion
       THEN UNCHANGED <<isAnswered, score, awarded>>
       ELSE /\ isAnswered' = TRUE
            /\ IF selectedOption = currentQuestion.correctAnswer
                 THEN score' = score + 1 /\ awarded' = 5
                 ELSE UNCHANGED <<score, awarded>>
  /\ UNCHANGED <<quiz, currentQuestionIndex, selectedOption, isQuizCompleted,
                 isLoading, error>>
  /\ UNCHANGED <<routeVars, selVars>>

\* a bound off by one: quiz.length instead of quiz.length - 1
nextQuestionOffByOne ==
  /\ ViewQuestion
  /\ isAnswered
  /\ IF currentQuestionIndex < Len(quiz)
       THEN /\ currentQuestionIndex' = currentQuestionIndex + 1
            /\ selectedOption' = Null
            /\ isAnswered' = FALSE
            /\ UNCHANGED <<isQuizCompleted, awarded>>
       ELSE /\ isQuizCompleted' = TRUE
            /\ awarded' = CompletionBonus
            /\ UNCHANGED <<currentQuestionIndex, selectedOption, isAnswered>>
  /\ UNCHANGED <<quiz, score, isLoading, error>>
  /\ UNCHANGED <<routeVars, selVars>>

\* lines 94-105, from the button of line 261 (on screen while isAnswered)
nextQuestion ==
  /\ ViewQuestion
  /\ isAnswered
  /\ IF currentQuestionIndex < Len(quiz) - 1
       THEN /\ currentQuestionIndex' = currentQuestionIndex + 1
            /\ selectedOption' = Null
            /\ isAnswered' = FALSE
            /\ UNCHANGED <<isQuizCompleted, awarded>>
       ELSE /\ isQuizCompleted' = TRUE
            /\ awarded' = CompletionBonus
            /\ UNCHANGED <<currentQuestionIndex, selectedOption, isAnswered>>
  /\ UNCHANGED <<quiz, score, isLoading, error>>
  /\ UNCHANGED <<routeVars, selVars>>

\* a restart that forgets setScore(0)
restartQuizKeepsScore ==
  /\ ViewResults
  /\ currentQuestionIndex' = 0
  /\ selectedOption' = Null
  /\ isAnswered' = FALSE
  /\ isQuizCompleted' = FALSE
  /\ UNCHANGED <<quiz, score, isLoading, error, awarded>>
  /\ UNCHANGED <<routeVars, selVars>>

\* lines 107-113, from the button of line 324
restartQuiz ==
  /\ ViewResults
  /\ currentQuestionIndex' = 0
  /\ selectedOption' = Null
  /\ isAnswered' = FALSE
  /\ score' = 0
  /\ isQuizCompleted' = FALSE
  /\ UNCHANGED <<quiz, isLoading, error, awarded>>
  /\ UNCHANGED <<routeVars, selVars>>

QuizOptions == {"A", "B", "C", "D", ""}

QuizNext ==
  \/ generateQuiz
  \/ \E data \in QuizPayloads : onSuccess(data)
  \/ onFailure
  \/ \E option \in QuizOptions : handleOptionSelect(option)
  \/ checkAnswer
  \/ nextQuestion
  \/ restartQuiz

QuizSpec == Init /\ [][QuizNext]_vars

\* one more request reaches the switch of the executor
Select(t, content, hasPrompt, prompt) ==
  /\ selections < MaxSelections
  /\ selections' = selections + 1
  /\ selected' = [task |-> t, content |-> content, hasPrompt |-> hasPrompt,
                  prompt |-> prompt,
                  out |-> Selector(t, content, hasPrompt, prompt)]
  /\ UNCHANGED <<routeVars, quizVars>>

SelectorNext ==
  \E t \in SelectorTasks, content \in SelectorContents, hasPrompt \in BOOLEAN :
    Select(t, content, hasPrompt, IF hasPrompt THEN <<"p">> ELSE <<>>)

SelectorSpec == Init /\ [][SelectorNext]_vars

Next ==
  \/ \E r \in Reqs, b \in Bodies : Arrive(r, b)
  \/ \E r \in Reqs : Resume(r)
  \/ \E r \in Reqs, o \in Outcomes : FetchSettles(r, o)
  \/ \E r \in Reqs : BackoffElapses(r)
  \/ Tick

Spec == Init /\ [][Next]_vars

\* The event loop runs every queued continuation, every fetch returns or is
\* aborted by its 15 s timer (lines 113-140), and every backoff timer fires.
\* Nothing obliges a client to send a request or the clock to be read.
Fairness ==
  /\ WF_vars(\E r \in Reqs : Resume(r))
  /\ \A r \in Reqs : WF_vars(\E o \in Outcomes : FetchSettles(r, o))
  /\ \A r \in Reqs : WF_vars(BackoffElapses(r))

LiveSpec == Spec /\ Fairness


\* ------------------------------------------------------------ properties
Running == {"fetching", "backoff429", "backoffCatch"}

\* the executors between their first fetch and their settling, per key
Outstanding(k) == {r \in Reqs : ipc[r] \in Running /\ cacheKey[r] = k}

Is2xx(n) == n >= 200 /\ n <= 299

\* the five tasks of the specification
SpecTasks == {TSummarize, TQuiz, TAskdoubt, TMindmap, TFlashcards}

\* r waited at line 34 for the pending promise of a call to the provider
SharedWaiter(r) == awaited[r] # 0 /\ task[awaited[r]] \in SpecTasks

\* C1: for every cache key, at most one Upstream Caller invocation is
\* outstanding at any time.
C1_AtMostOneOutstanding ==
  \A r1 \in Reqs : Cardinality(Outstanding(cacheKey[r1])) <= 1

C3_ServedFromCache ==
  [][\A r1, r2 \in Reqs :
       ( /\ pc[r2] = "idle" /\ pc'[r2] # "idle"
         /\ fingerprint'[r2] = fingerprint[r1]
         /\ promise[r1].state = "resolved"
         /\ cacheKey[r1] \in DOMAIN responseCache
         /\ responseCache[cacheKey[r1]].data = promise[r1].result
         /\ now - responseCache[cacheKey[r1]].timestamp < 10 * 60 * 1000 )
       => /\ pc'[r2] = "done"
          /\ resp'[r2] = JsonResult(promise[r1].result)
          /\ attempts' = attempts
          /\ ipc' = ipc
          /\ responseCache' = responseCache]_vars

C3_Witness ==
  \E r1, r2 \in Reqs :
    /\ r1 # r2
    /\ via[r1] = "own" /\ via[r2] = "cache"
    /\ fingerprint[r1] = fingerprint[r2]
    /\ resp[r2] = resp[r1]
    /\ now > responseCache[cacheKey[r1]].timestamp

C5_NoEntryAfterSettle ==
  \A r \in Reqs :
    (ipc[r] = "settled" /\ cacheKey[r] \in DOMAIN ongoingRequests)
      => ongoingRequests[cacheKey[r]] # r

\* C6: an invocation issues at most 3 fetches; after a third fetch that
\* does not succeed it fails without another; it succeeds directly from the
\* fetch that returned a success status.
C6_AtMostThreeAttempts ==
  /\ [](\A r \in Reqs : attempts[r] <= 3)
  /\ [][\A r \in Reqs :
          /\ (attempts[r] = 3 /\ ipc[r] \in Running /\ ipc'[r] # ipc[r])
               => \/ (ipc[r] = "fetching" /\ ipc'[r] = "backoff429")
                  \/ (ipc'[r] = "settled" /\ attempts'[r] = 3
                        /\ (ipc[r] # "fetching" => promise'[r].state = "rejected"))
          /\ (promise[r].state = "pending" /\ promise'[r].state = "resolved")
               => (ipc[r] = "fetching" /\ attempts'[r] = attempts[r])]_vars

C6_Witness ==
  \E r \in Reqs :
    /\ attempts[r] = 3
    /\ promise[r].state = "rejected"
    /\ promise[r].reason.error = "Failed to get response from AI after multiple attempts"

\* C7: after a response with an error status other than 429 the invocation
\* is over: no executor is fetching or backing off with such a response.
C7_OtherStatusNeverRetried ==
  \A r \in Reqs : ipc[r] \in Running => response[r] \in {0, 429}

\* C8: the client of a failed call receives a non-2xx response whose body
\* carries the error, details and status of the error the call failed with.
C8_ErrorFieldsReachClient ==
  \A r \in Reqs :
    (pc[r] = "done" /\ promise[r].state = "rejected")
      => /\ ~Is2xx(resp[r].http)
         /\ resp[r].error = promise[r].reason.error
         /\ resp[r].details = promise[r].reason.details
         /\ resp[r].status = promise[r].reason.status

\* C9: a request whose task is none of the five fails with the invalid-task
\* error, no fetch is issued for it and no cache entry is made for its key.
C9_UnknownTaskNoCall ==
  \A r \in Reqs :
    (pc[r] # "idle" /\ fingerprint[r].parses /\ task[r] \notin SpecTasks)
      => /\ attempts[r] = 0
         /\ ipc[r] \notin Running
         /\ ipc[r] = "settled"
              => (promise[r].state = "rejected"
                   /\ promise[r].reason.error = "Invalid task type")
         /\ pc[r] = "done" => ~Is2xx(resp[r].http)
         /\ cacheKey[r] \notin DOMAIN responseCache

C9_Witness ==
  \E r \in Reqs :
    /\ fingerprint[r].parses /\ task[r] \notin SpecTasks
    /\ pc[r] = "done"
    /\ promise[r].reason.error = "Invalid task type"


\* what C10 says checkAnswer does with an option selected
CheckAnswerScored ==
  /\ isAnswered'
  /\ currentQuestionIndex' = currentQuestionIndex
  /\ score' = IF selectedOption = currentQuestion.correctAnswer
                THEN score + 1 ELSE score

\* C10: checkAnswer with an option selected marks the question answered,
\* keeps the index, and raises the score by 1 exactly when the option is
\* the question's correctAnswer; with no option selected it changes nothing.
C10_CheckAnswerScores ==
  (ViewQuestion /\ ~isAnswered) =>
    IF selectedOption # Null
      THEN /\ ENABLED (checkAnswer /\ CheckAnswerScored)
           /\ ~ENABLED (checkAnswer /\ ~CheckAnswerScored)
      ELSE ~ENABLED (checkAnswer /\ quizVars' # quizVars)


\* what C11 says restart leaves behind
Restarted ==
  /\ currentQuestionIndex' = 0
  /\ score' = 0
  /\ selectedOption' = Null
  /\ ~isAnswered'
  /\ ~isQuizCompleted'
  /\ quiz' = quiz
  /\ ~isLoading'

\* C11: restart, wherever the view offers it (the results card, whatever
\* the score), returns to question 0 with score 0, nothing selected, not
\* answered, not completed, keeps the questions and starts no generation.
C11_RestartResets ==
  ViewResults =>
    /\ ENABLED (restartQuiz /\ Restarted)
    /\ ~ENABLED (restartQuiz /\ ~Restarted)

\* after a restart of a completed quiz with a score above 0: the latest
\* award is the completion bonus of that score
C11_Witness ==
  /\ ViewQuestion
  /\ awarded \notin {0, 5, 20}
  /\ score = 0 /\ currentQuestionIndex = 0 /\ selectedOption = Null
  /\ Len(quiz) = 3

\* a payload as the specification wants it: an array whose elements each
\* have a question, exactly 4 options and a correctAnswer
WellFormed(data) ==
  /\ data.isArray
  /\ \A i \in 1..Len(data.items) :
       /\ data.items[i].question \notin {"", Undefined}
       /\ data.items[i].optionsIsArray
       /\ Len(data.items[i].options) = 4
       /\ data.items[i].correctAnswer \notin {"", Undefined}

\* C12: after a generation or regeneration that returned a malformed
\* payload, the payload is not stored and the view is loading or showing
\* the error, not a quiz.
C12_MalformedLeavesLoadingOrError ==
  [][\A data \in QuizPayloads :
       (onSuccess(data) /\ ~WellFormed(data))
         => (quiz' = quiz /\ (ViewLoading' \/ ViewError'))]_vars

\* C13: every question of the accepted set has exactly 4 options and a
\* correctAnswer that is one of them.
C13_CorrectAnswerAmongOptions ==
  \A i \in 1..Len(quiz) :
    /\ Len(quiz[i].options) = 4
    /\ \E j \in 1..Len(quiz[i].options) : quiz[i].options[j] = quiz[i].correctAnswer

\* what C15 says advance does
Advanced ==
  /\ score' = score
  /\ quiz' = quiz
  /\ IF currentQuestionIndex + 1 < Len(quiz)
       THEN /\ currentQuestionIndex' = currentQuestionIndex + 1
            /\ selectedOption' = Null
            /\ ~isAnswered'
            /\ ~isQuizCompleted'
       ELSE /\ isQuizCompleted'
            /\ currentQuestionIndex' = currentQuestionIndex

\* C15: advance from an answered question i goes to question i + 1, nothing
\* selected and not answered, when i + 1 < length, and else to the results
\* with index and score as they were; the index never reaches the length.
C15_AdvanceStaysInRange ==
  /\ Len(quiz) > 0 => currentQuestionIndex < Len(quiz)
  /\ (ViewQuestion /\ isAnswered) =>
       /\ ENABLED (nextQuestion /\ Advanced)
       /\ ~ENABLED (nextQuestion /\ ~Advanced)

C15_Witness ==
  /\ isQuizCompleted
  /\ Len(quiz) = 3
  /\ currentQuestionIndex = 2
  /\ score = 2

\* C16: selecting an option of a question not yet answered makes it the
\* selected option and changes nothing else; once the question is answered
\* selecting changes nothing.
C16_SelectOnlyWhileAnswering ==
  ViewQuestion =>
    \A j \in 1..Len(currentQuestion.options) :
      LET opt == currentQuestion.options[j]
          Selected == selectedOption' = opt
                        /\ UNCHANGED <<quiz, currentQuestionIndex, isAnswered,
                                       score, isQuizCompleted, isLoading, error>>
      IN IF ~isAnswered
           THEN /\ ENABLED (handleOptionSelect(opt) /\ Selected)
                /\ ~ENABLED (handleOptionSelect(opt) /\ ~Selected)
           ELSE ~ENABLED (handleOptionSelect(opt) /\ quizVars' # quizVars)

C16_Witness ==
  /\ ViewQuestion
  /\ isAnswered
  /\ selectedOption = "D"
  /\ currentQuestionIndex = 1

\* C20: with questions loaded, 0 <= index < length and 0 <= score <= the
\* questions answered so far (index, plus 1 when the current one is
\* answered), so score <= length.
C20_ScoreWithinAnswered ==
  Len(quiz) > 0 =>
    /\ currentQuestionIndex >= 0 /\ currentQuestionIndex < Len(quiz)
    /\ score >= 0
    /\ score <= currentQuestionIndex + (IF isAnswered THEN 1 ELSE 0)
    /\ score <= Len(quiz)

C20_Witness ==
  /\ Len(quiz) = 2
  /\ isQuizCompleted
  /\ score = 2


\* C14: the selector gives summarize (default model, 0.3, 1024), quiz
\* (reasoning model, 0.7, 1500), askdoubt (default model, 0.4, 1024),
\* mindmap (reasoning model, 0.7, 2000) and flashcards (default model, 0.5,
\* 1500), whatever the texts of the request and the requests before it.
\* Temperatures are in tenths.
C14_SelectorTable ==
  selections > 0 =>
    LET t == selected.task
        choice == <<selected.out.model, selected.out.temperature,
                    selected.out.maxTokens>>
    IN /\ t = TSummarize => choice = <<DefaultModel, 3, 1024>>
       /\ t = TQuiz => choice = <<ReasoningModel, 7, 1500>>
       /\ t = TAskdoubt => choice = <<DefaultModel, 4, 1024>>
       /\ t = TMindmap => choice = <<ReasoningModel, 7, 2000>>
       /\ t = TFlashcards => choice = <<DefaultModel, 5, 1500>>
       /\ DefaultModel # ReasoningModel

\* a mindmap request selected after earlier requests
C14_Witness ==
  /\ selections = 3
  /\ selected.task = TMindmap
  /\ selected.out.valid
  /\ selected.out.maxTokens = 2000


\* request r arrives in this step
Arrives(r) == pc[r] = "idle" /\ pc'[r] # "idle"

\* C17: an entry is served only while its age is below CACHE_TTL; a request
\* whose key has an entry of age >= CACHE_TTL and no in-flight entry makes a
\* new upstream call, and when a call succeeds the entry of its key is the
\* new result with the time of the completion.
C17_ExpiredEntryRefetched ==
  [][\A r \in Reqs :
       /\ (Arrives(r) /\ via'[r] = "cache") =>
            /\ MapHas(responseCache, cacheKey'[r])
            /\ now - responseCache[cacheKey'[r]].timestamp < CACHE_TTL
       /\ (/\ Arrives(r)
           /\ MapHas(responseCache, cacheKey'[r])
           /\ now - responseCache[cacheKey'[r]].timestamp >= CACHE_TTL
           /\ ~MapHas(ongoingRequests, cacheKey'[r])) =>
            /\ via'[r] # "cache"
            /\ ipc'[r] = "fetching"
            /\ attempts'[r] = 1
       /\ (promise[r].state = "pending" /\ promise'[r].state = "resolved") =>
            /\ MapHas(responseCache', cacheKey[r])
            /\ responseCache'[cacheKey[r]].data = promise'[r].result
            /\ responseCache'[cacheKey[r]].timestamp = now]_vars

\* an entry written at time 0 was found expired and has been replaced by the
\* result of the later request
C17_Witness ==
  \E r1, r2 \in Reqs :
    /\ r1 < r2
    /\ cacheKey[r1] = cacheKey[r2]
    /\ promise[r1] = Resolved("c1")
    /\ promise[r2] = Resolved("c2")
    /\ MapHas(responseCache, cacheKey[r2])
    /\ responseCache[cacheKey[r2]] = [data |-> "c2", timestamp |-> CACHE_TTL]

\* C18: the cache changes only when an upstream call completes with
\* success; a request that fails (invalid task, other HTTP error, retries
\* exhausted, internal error) leaves it as it was.
C18_CacheOnlyOnSuccess ==
  [][/\ responseCache' # responseCache =>
          \E r \in Reqs :
            /\ promise[r].state = "pending"
            /\ promise'[r].state = "resolved"
            /\ responseCache' =
                 [k \in DOMAIN responseCache \cup {cacheKey[r]} |->
                    IF k = cacheKey[r]
                      THEN [data |-> promise'[r].result, timestamp |-> now]
                      ELSE responseCache[k]]
     /\ \A r \in Reqs :
          \/ promise[r].state # "rejected" /\ promise'[r].state = "rejected"
          \/ resp[r].http # 500 /\ resp'[r].http = 500
          => responseCache' = responseCache]_vars

\* a refresh of an expired entry failed and the old entry is still there
C18_Witness ==
  \E r1, r2 \in Reqs :
    /\ r1 < r2
    /\ cacheKey[r1] = cacheKey[r2]
    /\ promise[r1].state = "resolved"
    /\ promise[r2].state = "rejected"
    /\ resp[r2].http = 500
    /\ MapHas(responseCache, cacheKey[r1])
    /\ responseCache[cacheKey[r1]] = [data |-> promise[r1].result, timestamp |-> 0]

\* C19: the wait after the i-th failed attempt is 2^(i-1) seconds whether
\* the attempt met a 429 or a network failure (1 s, then 2 s), and there is
\* no wait after the attempt that reaches the ceiling.
C19_SameBackoffBothPaths ==
  \A r \in Reqs :
    /\ Len(backoffs[r]) < maxRetries
    /\ \A i \in 1..Len(backoffs[r]) : backoffs[r][i] = Pow2(i - 1) * 1000


\* C21: every request that has arrived is eventually answered, whether it
\* made the upstream call itself or waited for the call of another.
C21_EveryRequestAnswered ==
  \A r \in Reqs : (pc[r] # "idle") ~> (pc[r] = "done" /\ resp[r].http # 0)

\* all requests answered: one after using every attempt, one after waiting
\* for it and calling again itself
C21_Witness ==
  /\ \A r \in Reqs : pc[r] = "done"
  /\ \E r \in Reqs : attempts[r] = maxRetries /\ via[r] = "fault"
  /\ \E r \in Reqs : awaited[r] # 0 /\ attempts[r] > 0

\* C22: while an upstream invocation is outstanding, the in-flight map has
\* an entry for its key and the entry is that invocation.
C22_EntryIsTheOutstandingInvocation ==
  \A r \in Reqs :
    ipc[r] \in Running =>
      /\ MapHas(ongoingRequests, cacheKey[r])
      /\ ongoingRequests[cacheKey[r]] = r

====
